---- MODULE Spec2Model ----
(***************************************************************************)
(* A model of httpns.js: the HTTPNS object (domain registry, lifecycle,    *)
(* configuration), SNICallbacks, requestForwarder, socketForwarder and the *)
(* asynchronous certificate loader `register`.                             *)
(*                                                                         *)
(* Text (a string or a Buffer) is a sequence of pieces: every white-space  *)
(* character and the byte 22 stand alone, a run of other characters may be *)
(* written as one piece.  Positions count pieces.  JavaScript values that  *)
(* the code tests with typeof or for truthiness are tagged records.        *)
(***************************************************************************)
EXTENDS Integers, Sequences, FiniteSets, TLC

VARIABLES
    \* the registry and the certificate loader
    domains, nextEmitter, loads, sni, memo,
    \* configuration, listeners, start(), the file system and the clock
    platform, port, path, http, https, boot, starts, files, now, procStart, assign,
    \* the requests handed to requestForwarder
    requests,
    \* the sockets handed to socketForwarder
    sockets

regVars == <<domains, nextEmitter, loads, sni, memo>>

lifeVars == <<platform, port, path, http, https, boot, starts, files, now, procStart, assign>>

reqVars == <<requests>>

muxVars == <<sockets>>

vars == <<regVars, lifeVars, reqVars, muxVars>>

----------------------------------------------------------------------------
(* Bounds *)

MaxRegs == 3

\* calls of start(), the one the constructor makes included
MaxStarts == 2

\* the clock stops here
MaxNow == 2

\* requests decoded by the HTTPS server
MaxRequests == 2

\* how far the timers' clock moves in one step
Elapsed == 2500

\* connections accepted by the public server
MaxSockets == 1

\* chunks a client sends on one connection
MaxChunks == 3

\* register calls interleaved with start and stop
MaxKeepRegs == 2

----------------------------------------------------------------------------
(* JavaScript values *)

NoText == <<>>

Undefined == [tag |-> "undefined", id |-> 0, to |-> NoText]

\* an alias: opt.context given as the name of another domain
Str(s) == [tag |-> "string", id |-> 0, to |-> s]

\* a secure context handed to register() by the caller
PreBuilt(n) == [tag |-> "prebuilt", id |-> n, to |-> NoText]

\* the object createSecureContext returns for load n
Loaded(n) == [tag |-> "loaded", id |-> n, to |-> NoText]

\* one EventEmitter made once and handed to every registration
EmitterOnce(n) == [tag |-> "emitter", id |-> 1, to |-> NoText]

\* new EventEmitter
Emitter(n) == [tag |-> "emitter", id |-> n, to |-> NoText]

IsString(v) == v.tag = "string"

IsContext(v) == v.tag \in {"prebuilt", "loaded"}

Truthy(v) == v.tag # "undefined" /\ ~(v.tag = "string" /\ v.to = NoText)

----------------------------------------------------------------------------
(* Domain names *)

da == <<"known.example">>
db == <<"other.example">>
du == <<"unknown.example">>
dconstructor == <<"constructor">>

\* the names register() is called with
RegDomains == {da, db}

\* property names every plain object ({}) inherits
ObjectPrototypeKeys == {dconstructor}

\* the names a client can announce (SNI) or send (Host)
Keys == RegDomains \cup {du} \cup ObjectPrototypeKeys

PreBuiltContexts == {PreBuilt(1), PreBuilt(2)}

\* what opt.context can be: absent (key/cert paths given), a context, a name
ContextOpts == {Undefined} \cup PreBuiltContexts \cup {Str(d) : d \in RegDomains}

----------------------------------------------------------------------------
(* The registry: this[priv].domains, a plain object *)

\* domains[domain]: an own entry, an inherited member, or undefined
Slot(doms, domain) ==
    IF domain \in DOMAIN doms
      THEN [present |-> TRUE, emitter |-> doms[domain].emitter, context |-> doms[domain].context]
      ELSE IF domain \in ObjectPrototypeKeys
             THEN [present |-> TRUE, emitter |-> Undefined, context |-> Undefined]
             ELSE [present |-> FALSE, emitter |-> Undefined, context |-> Undefined]

\* as() without its second parameter: the emitter whatever is asked for
asEmitterOnly(doms, domain, context) ==
    IF Slot(doms, domain).present THEN Slot(doms, domain).emitter ELSE Undefined

as(doms, domain, context) ==
    IF Slot(doms, domain).present
      THEN IF context THEN Slot(doms, domain).context ELSE Slot(doms, domain).emitter
      ELSE Undefined

has(doms, domain) == Slot(doms, domain).present

\* a registry that is replaced by one holding the new entry alone
PutAlone(doms, domain, entry) ==
    [k \in {domain} |-> entry]

\* doms with doms[domain] = entry (creating the key when absent)
Put(doms, domain, entry) ==
    [k \in (DOMAIN doms) \cup {domain} |-> IF k = domain THEN entry ELSE doms[k]]

NoMemo == [set |-> FALSE, context |-> Undefined]

----------------------------------------------------------------------------
(* HTTPNS.register(opt) for one opt; register(...opts) maps over the opts   *)
(* synchronously, which is this action repeated.                           *)

\* a call of the loader: its opts.domain, where it is, what it emitted, and
\* the channel made by the register call that started it
NewLoad(domain) == [domain |-> domain, stage |-> "key", key |-> FALSE, outcome |-> "pending",
                    emits |-> 0, announced |-> Undefined, channel |-> Emitter(nextEmitter)]

StartsLoad(opt) == ~Truthy(opt.context)

Register(opt) ==
    /\ nextEmitter <= MaxRegs
    /\ domains' = Put(domains, opt.domain, [emitter |-> Emitter(nextEmitter), context |-> opt.context])
    /\ nextEmitter' = nextEmitter + 1
    /\ loads' = IF StartsLoad(opt) THEN Append(loads, NewLoad(opt.domain)) ELSE loads
    /\ memo' = [memo EXCEPT ![opt.domain] = NoMemo]
    /\ UNCHANGED <<sni, lifeVars, reqVars, muxVars>>

----------------------------------------------------------------------------
(* async function register(httpns, opts): the certificate loader           *)

\* await fs.readFile(opts.key) settles; readFile(opts.cert) is issued
LoadKeyRead(i, ok) ==
    /\ i \in DOMAIN loads
    /\ loads[i].stage = "key"
    /\ loads' = [loads EXCEPT ![i].stage = "cert", ![i].key = ok]
    /\ UNCHANGED <<domains, nextEmitter, sni, memo, lifeVars, reqVars, muxVars>>

\* what the rest of the function does once readFile(opts.cert) has settled:
\* "threw" (createSecureContext rejects the bytes), "registry" or "error"
LoadOutcome(key, cert, wellFormed) ==
    IF key /\ cert
      THEN IF wellFormed THEN "registry" ELSE "threw"
      ELSE "error"

LoadCertRead(i, ok, wellFormed) ==
    /\ i \in DOMAIN loads
    /\ loads[i].stage = "cert"
    /\ LET out == LoadOutcome(loads[i].key, ok, wellFormed)
           d   == loads[i].domain
       IN /\ loads' = [loads EXCEPT ![i].stage = "done", ![i].outcome = out,
                                    ![i].emits = IF out = "threw" THEN 0 ELSE 1,
                                    ![i].announced = IF out = "registry" THEN domains[d].emitter
                                                     ELSE Undefined]
          /\ domains' = IF out = "registry"
                          THEN [domains EXCEPT ![d].context = Loaded(i)]
                          ELSE domains
    /\ UNCHANGED <<nextEmitter, sni, memo, lifeVars, reqVars, muxVars>>

----------------------------------------------------------------------------
(* SNICallbacks(httpns, domain, cb) *)

\* SNICallbacks without the assignment to the alias entry
SNIDomainsUnchanged(doms, domain) == doms

\* the registry after the alias step
SNIDomains(doms, domain) ==
    IF IsString(as(doms, domain, TRUE))
      THEN [doms EXCEPT ![domain].context = as(doms, as(doms, domain, TRUE).to, TRUE)]
      ELSE doms

\* the names SNICallbacks hands to httpns.as, in order
SNILookups(doms, domain) ==
    IF IsString(as(doms, domain, TRUE))
      THEN <<domain, domain, as(doms, domain, TRUE).to, domain>>
      ELSE <<domain, domain>>

\* what the entry of domain holds, read from the object itself
Stored(doms, domain) == IF domain \in DOMAIN doms THEN doms[domain].context ELSE Undefined

\* the call as the TLS layer sees it: cb(null, context) or
\* cb(new Error(`Unsupported domain ...`)), with the registry before and after
SNIResult(doms, domain) ==
    LET context == as(SNIDomains(doms, domain), domain, TRUE)
        before  == Stored(doms, domain)
    IN [domain  |-> domain,
        err     |-> ~Truthy(context),
        context |-> IF Truthy(context) THEN context ELSE Undefined,
        lookups |-> SNILookups(doms, domain),
        own     |-> domain \in DOMAIN doms,
        before  |-> before,
        target  |-> IF IsString(before) THEN Stored(doms, before.to) ELSE Undefined,
        after   |-> Stored(SNIDomains(doms, domain), domain)]

SNICallbacks(domain) ==
    /\ domains' = SNIDomains(domains, domain)
    /\ sni' = SNIResult(domains, domain)
    /\ memo' = IF IsString(Stored(domains, domain)) /\ IsContext(Stored(domains', domain))
                 THEN [memo EXCEPT ![domain] = [set |-> TRUE, context |-> Stored(domains', domain)]]
                 ELSE memo
    /\ UNCHANGED <<nextEmitter, loads, lifeVars, reqVars, muxVars>>

----------------------------------------------------------------------------

(* Configuration: get running, set port, set path *)

\* get running() looking at the public listener alone
runningHttpOnly == http.listening

\* get running()
running == (https.listening) /\ (http.listening)

\* process.platform === "win32" && !val.startsWith('\\\\?\\pipe\\') ? "\\\\?\\pipe\\" : ""
\* followed by val: a path is its name and whether it carries the pipe prefix
PipePath(val) ==
    [piped |-> (platform = "win32" /\ ~val.piped) \/ val.piped, name |-> val.name]

\* isNaN(val)
isNaN(val) == val.nan

\* set port(val); assign tells the last assignment made and whether it threw
SetPort(val) ==
    /\ assign' = [prop |-> "port", nan |-> val.nan, val |-> val.v, name |-> "", piped |-> FALSE,
                  threw |-> running \/ isNaN(val), turn |-> 1 - assign.turn]
    /\ port' = IF running \/ isNaN(val) THEN port ELSE val.v
    /\ UNCHANGED <<platform, path, http, https, boot, starts, files, now, procStart, regVars, reqVars, muxVars>>

\* set path(val)
SetPath(val) ==
    /\ assign' = [prop |-> "path", nan |-> FALSE, val |-> 0, name |-> val.name, piped |-> val.piped,
                  threw |-> running, turn |-> 1 - assign.turn]
    /\ path' = IF running THEN path ELSE PipePath(val)
    /\ UNCHANGED <<platform, port, http, https, boot, starts, files, now, procStart, regVars, reqVars, muxVars>>

----------------------------------------------------------------------------
(* async start() and stop() *)

TicksPerSecond == 2

SecondsPerMinute == 60

NoFile == [exists |-> FALSE, birth |-> 0]

\* new Date().getSeconds() at clock reading t
getSeconds(t) == (t \div TicksPerSecond) % SecondsPerMinute

\* ToIntegerOrInfinity(n / TicksPerSecond): Date's setters drop the fraction
TruncSeconds(n) == IF n >= 0 THEN n \div TicksPerSecond ELSE -((-n) \div TicksPerSecond)

\* init = new Date; init.setSeconds(init.getSeconds() - process.uptime()); init.getTime()
\* setSeconds keeps the minute and the milliseconds and replaces the seconds
InitTime(t, uptime) ==
    LET ms     == t % TicksPerSecond
        minute == t - getSeconds(t) * TicksPerSecond - ms
    IN minute + TruncSeconds(getSeconds(t) * TicksPerSecond - uptime) * TicksPerSecond + ms

\* stat && stat.birthtime.getTime() < init.getTime()
Stale(stat, t, uptime) == stat.exists /\ stat.birth < InitTime(t, uptime)

NoPath == [piped |-> FALSE, name |-> ""]

\* start(): where it is, the path it gave to fs.stat and to fs.unlink, and
\* the port that was configured when it was called
Idle == [pc |-> "idle", statPath |-> NoPath, unlinkPath |-> NoPath, port |-> 0]

\* start() up to its first await: fs.stat(this.path) is issued
Stat == [Idle EXCEPT !.pc = "stat", !.statPath = path, !.port = port]

StartCall ==
    /\ boot.pc = "idle"
    /\ starts < MaxStarts
    /\ starts' = starts + 1
    /\ boot' = Stat
    /\ UNCHANGED <<platform, port, path, http, https, files, now, procStart, assign, regVars, reqVars, muxVars>>

\* this.http.listen(this.port): the listener after the call
HttpListen(busy) ==
    IF busy
      THEN [http EXCEPT !.raised = @ + 1]
      ELSE [http EXCEPT !.listening = TRUE, !.port = port]

\* this.https.listen({ path: this.path }) on file system fs: the address is
\* taken when a file is there
HttpsListen(fs) ==
    IF fs[path].exists
      THEN [https EXCEPT !.raised = @ + 1]
      ELSE [https EXCEPT !.listening = TRUE, !.path = path]

\* the file a successful https.listen creates
Bound(fs) ==
    IF fs[path].exists THEN fs ELSE [fs EXCEPT ![path] = [exists |-> TRUE, birth |-> now]]

\* server.on('error', err => this.emit('error', err))
On(server) == [server EXCEPT !.listeners = @ + 1]

\* the 'error' event listen() raised, emitted on the next tick: every listener
\* attached by then forwards it once
Deliver(server, before) ==
    [server EXCEPT !.forwarded = @ + (server.raised - before.raised) * server.listeners]

\* lines 117-122 on file system fs; listen() on a listening server throws
\* ERR_SERVER_ALREADY_LISTEN and ends start() there
Listen(busy, fs) ==
    /\ boot' = Idle
    /\ IF http.listening
         THEN /\ files' = fs
              /\ UNCHANGED <<http, https>>
         ELSE IF https.listening
                THEN /\ http' = Deliver(HttpListen(busy), http)
                     /\ files' = fs
                     /\ UNCHANGED https
                ELSE /\ http' = Deliver(On(HttpListen(busy)), http)
                     /\ https' = Deliver(On(HttpsListen(fs)), https)
                     /\ files' = Bound(fs)

\* fs.stat settles; when the file is stale fs.unlink(this.path) is issued,
\* otherwise the servers are started
StatSettles(busy) ==
    /\ boot.pc = "stat"
    /\ IF Stale(files[boot.statPath], now, now - procStart)
         THEN /\ boot' = [boot EXCEPT !.pc = "unlink", !.unlinkPath = path]
              /\ UNCHANGED <<http, https, files>>
         ELSE Listen(busy, files)
    /\ UNCHANGED <<platform, port, path, starts, now, procStart, assign, regVars, reqVars, muxVars>>

\* fs.unlink settles (a failure is logged and dropped); the servers are started
UnlinkSettles(ok, busy) ==
    /\ boot.pc = "unlink"
    /\ Listen(busy, IF ok THEN [files EXCEPT ![boot.unlinkPath] = NoFile] ELSE files)
    /\ UNCHANGED <<platform, port, path, starts, now, procStart, assign, regVars, reqVars, muxVars>>

\* stop(): this.http.close(); this.https.close().  Closing the relay listener
\* may or may not leave its file behind, depending on the platform.
Stop(keepFile) ==
    /\ http' = [http EXCEPT !.listening = FALSE]
    /\ https' = [https EXCEPT !.listening = FALSE]
    /\ files' = IF https.listening /\ ~keepFile
                  THEN [files EXCEPT ![https.path] = NoFile]
                  ELSE files
    /\ UNCHANGED <<platform, port, path, boot, starts, now, procStart, assign, regVars, reqVars, muxVars>>

\* time passes
Tick ==
    /\ now < MaxNow
    /\ now' = now + 1
    /\ UNCHANGED <<platform, port, path, http, https, boot, starts, files, procStart, assign, regVars, reqVars, muxVars>>

----------------------------------------------------------------------------
(* requestForwarder(httpns, req, res) and its timeout callback *)

Timeout == 5000

Urls == {<<"/">>, <<"/x">>}

\* the TLS layer can complete a handshake: some name resolves to a context
CanHandshake == \E d \in Keys : IsContext(SNIResult(domains, d).context)

\* the request right after requestForwarder returned or threw.
\* httpns.as(host) of an unknown host is undefined, and undefined.emit(...)
\* throws a TypeError before anything is emitted and before the timer is set.
Forwarded(host, url) ==
    LET emitter == as(domains, host, FALSE)
        thrown  == ~Truthy(emitter)
    IN [host |-> host, url |-> url,
        channel |-> emitter,                  \* .emit(req.url, res, req)
        catchAll |-> ~thrown,                 \* httpns.emit('request', host, res, req)
        threw |-> thrown,
        timer |-> IF thrown THEN "none" ELSE "armed",
        age |-> 0,
        answeredAt |-> -1,                    \* when a subscriber ended res
        heads |-> 0,                          \* res.writeHead(500, ...) done
        ends |-> 0,                           \* res.end("Error 500: ...") done
        late |-> FALSE]                       \* the callback ran on an ended res

requestForwarder(host, url) ==
    /\ Len(requests) < MaxRequests
    /\ running
    /\ CanHandshake
    /\ requests' = Append(requests, Forwarded(host, url))
    /\ UNCHANGED <<regVars, lifeVars, muxVars>>

\* a subscriber that was notified writes the response and ends it
Answer(i) ==
    /\ i \in DOMAIN requests
    /\ requests[i].catchAll
    /\ requests[i].answeredAt < 0
    /\ requests[i].ends = 0
    /\ requests' = [requests EXCEPT ![i].answeredAt = requests[i].age]
    /\ UNCHANGED <<regVars, lifeVars, muxVars>>

\* the callback given to setTimeout(..., 5000); writeHead on a response whose
\* headers are sent throws ERR_HTTP_HEADERS_SENT
TimedOut(r) ==
    IF r.answeredAt >= 0
      THEN [r EXCEPT !.timer = "ran", !.late = TRUE]
      ELSE [r EXCEPT !.timer = "ran", !.heads = @ + 1, !.ends = @ + 1]

TimerFires(i) ==
    /\ i \in DOMAIN requests
    /\ requests[i].timer = "armed"
    /\ requests[i].age >= Timeout
    /\ requests' = [requests EXCEPT ![i] = TimedOut(requests[i])]
    /\ UNCHANGED <<regVars, lifeVars, muxVars>>

\* the timers' clock moves; a timer never runs early but may run late
Elapse ==
    /\ \E i \in DOMAIN requests : requests[i].age < Timeout
    /\ requests' = [i \in DOMAIN requests |->
                      [requests[i] EXCEPT !.age = IF @ < Timeout THEN @ + Elapsed ELSE @]]
    /\ UNCHANGED <<regVars, lifeVars, muxVars>>

----------------------------------------------------------------------------
(* String and Buffer operations used by socketForwarder and headers *)

CR == "\r"
LF == "\n"
SP == " "
CRLF == <<CR, LF>>

\* data[0] === 22
TLSHandshake == "0x16"

WhiteSpace == {SP, CR, LF, "\t"}

RECURSIVE trimStart(_)
trimStart(str) ==
    IF str # <<>> /\ Head(str) \in WhiteSpace THEN trimStart(Tail(str)) ELSE str

RECURSIVE trimEnd(_)
trimEnd(str) ==
    IF str # <<>> /\ str[Len(str)] \in WhiteSpace THEN trimEnd(SubSeq(str, 1, Len(str) - 1)) ELSE str

\* str.trim()
trim(str) == trimEnd(trimStart(str))

\* zero-based position of the first piece c in str, -1 when there is none
indexOf(str, c) ==
    IF \E i \in 1..Len(str) : str[i] = c
      THEN (CHOOSE i \in 1..Len(str) : str[i] = c /\ \A j \in 1..(i - 1) : str[j] # c) - 1
      ELSE -1

lastIndexOf(str, c) ==
    IF \E i \in 1..Len(str) : str[i] = c
      THEN (CHOOSE i \in 1..Len(str) : str[i] = c /\ \A j \in (i + 1)..Len(str) : str[j] # c) - 1
      ELSE -1

Clamp(n, len) == IF n < 0 THEN 0 ELSE IF n > len THEN len ELSE n

\* str.substring(start, end): out-of-range positions are clamped, and the two
\* are swapped when start > end
substring(str, start, end) ==
    LET a == Clamp(start, Len(str))
        b == Clamp(end, Len(str))
    IN IF a <= b THEN SubSeq(str, a + 1, b) ELSE SubSeq(str, b + 1, a)

\* str.substring(start)
substringFrom(str, start) == substring(str, start, Len(str))

\* zero-based position of the first "\r\n" in str, -1 when there is none
indexOfCRLF(str) ==
    IF \E i \in 1..(Len(str) - 1) : str[i] = CR /\ str[i + 1] = LF
      THEN (CHOOSE i \in 1..(Len(str) - 1) : /\ str[i] = CR /\ str[i + 1] = LF
                                              /\ \A j \in 1..(i - 1) : ~(str[j] = CR /\ str[j + 1] = LF)) - 1
      ELSE -1

\* str.split('\r\n')
RECURSIVE split(_)
split(str) ==
    IF indexOfCRLF(str) < 0
      THEN <<str>>
      ELSE <<substring(str, 0, indexOfCRLF(str))>> \o split(substringFrom(str, indexOfCRLF(str) + 2))

\* the pieces of the texts of a sequence, one after the other
RECURSIVE Join(_)
Join(texts) == IF texts = <<>> THEN <<>> ELSE Head(texts) \o Join(Tail(texts))

\* STATUS_CODES[code]
STATUS_CODES(code) ==
    CASE code = "308" -> "Permanent Redirect"
      [] code = "400" -> "Bad Request"
      [] code = "500" -> "Internal Server Error"

\* one `${key}: ${data[key]}` per field of data, each behind a '\r\n'
RECURSIVE HeaderLines(_)
HeaderLines(data) ==
    IF data = <<>> THEN <<>>
    ELSE CRLF \o <<Head(data)[1], ":", SP>> \o Head(data)[2] \o HeaderLines(Tail(data))

\* headers(code, data): the fields of data are <<key, value>> in insertion order
headers(code, data) ==
    <<"HTTP/1.1", SP, code, SP, STATUS_CODES(code)>> \o HeaderLines(data) \o CRLF \o CRLF

----------------------------------------------------------------------------
(* socketForwarder(httpns, socket) *)

\* conn: its state, the address it connects to, the writes buffered and
\* delivered, and whether conn.end() has been called on it while it was alive
NoRelay == [state |-> "none", path |-> NoPath, queue |-> <<>>, delivered |-> <<>>, fin |-> FALSE]

\* `https://${domain}${url}`
Location(domain, url) == <<"https://">> \o domain \o url

\* the relay branch without conn.write(data)
FirstWriteMissing(data) == <<>>

\* the first conn.write: the chunk that was read to classify the connection
FirstWrite(data) == <<data>>

\* the branch for data[0] === 22: createConnection({ path: httpns.path }),
\* the two pipes and conn.write(data)
Relay(sock, data) ==
    [sock EXCEPT !.kind = "relay",
                 !.conn = [state |-> "connecting", path |-> path, queue |-> FirstWrite(data),
                           delivered |-> <<>>, fin |-> FALSE]]

\* the else branch: what is written to the socket and that it is ended
Plain(sock, data) ==
    LET parse  == split(trim(data))
        domain == substringFrom(parse[2], indexOf(parse[2], SP) + 1)
        url    == substring(parse[1], indexOf(parse[1], SP) + 1, lastIndexOf(parse[1], SP))
    IN IF Len(parse) > 1 /\ has(domains, domain)
         THEN [sock EXCEPT !.kind = "plain", !.ended = @ + 1,
                 !.written = @ \o <<headers("308", << <<"Content-Type", <<"text/plain">> >>,
                                                       <<"Location", Location(domain, url)>>,
                                                       <<"Connection", <<"closed">> >> >>),
                                    <<"Response 308: Redirecting to secured request.">> >>]
         ELSE [sock EXCEPT !.kind = "plain", !.ended = @ + 1,
                 !.written = @ \o <<headers("400", << <<"Content-Type", <<"text/plain">> >>,
                                                       <<"Connection", <<"closed">> >> >>),
                                    <<"Error 400: Unknown domain; Domain incorrectly pointing to this server.">> >>]

\* the listener of socket.once('data', ...)
OnFirstData(sock, data) ==
    IF data[1] = TLSHandshake THEN Relay(sock, data) ELSE Plain(sock, data)

\* socket.pipe(conn): a later chunk is written to conn unless conn is gone
Piped(sock, data) ==
    IF sock.conn.state \in {"connecting", "open"}
      THEN [sock EXCEPT !.conn.queue = Append(@, data)]
      ELSE sock

\* socket.on('data', ...) in place of once: every chunk is classified
OnDataEvery(sock, data) ==
    OnFirstData(sock, data)

\* a 'data' event of the socket
OnData(sock, data) ==
    IF sock.kind = "new" THEN OnFirstData(sock, data)
    ELSE IF sock.kind = "relay" THEN Piped(sock, data)
    ELSE sock

\* ended counts the calls of socket.end(); peer tells what the client did to
\* the connection: nothing yet ("open"), closed it ("fin") or broke it ("reset")
NewSocket == [kind |-> "new", received |-> <<>>, sent |-> <<>>, known |-> <<>>,
              written |-> <<>>, ended |-> 0, conn |-> NoRelay, peer |-> "open"]

\* the public server accepts a connection: socketForwarder(this, socket)
Accept ==
    /\ http.listening
    /\ Len(sockets) < MaxSockets
    /\ sockets' = Append(sockets, NewSocket)
    /\ UNCHANGED <<regVars, lifeVars, reqVars>>

\* the client sends a chunk; `what` tells how the client built it
Data(s, chunk, what) ==
    /\ s \in DOMAIN sockets
    /\ sockets[s].peer = "open"
    /\ Len(sockets[s].received) < MaxChunks
    /\ sockets' = [sockets EXCEPT ![s] =
                     [OnData(sockets[s], chunk) EXCEPT
                        !.received = Append(@, chunk),
                        !.sent = Append(@, what),
                        !.known = Append(@, what.host \in DOMAIN domains)]]
    /\ UNCHANGED <<regVars, lifeVars, reqVars>>

\* the connection to the relay address is established, or fails when no
\* server listens at that address ('error', then conn.end())
RelayConnects(s) ==
    /\ s \in DOMAIN sockets
    /\ sockets[s].conn.state = "connecting"
    /\ sockets' = IF https.listening /\ https.path = sockets[s].conn.path
                    THEN [sockets EXCEPT ![s].conn.state = "open"]
                    ELSE [sockets EXCEPT ![s].conn.state = "failed", ![s].conn.queue = <<>>]
    /\ UNCHANGED <<regVars, lifeVars, reqVars>>

\* the oldest buffered write reaches the HTTPS server
RelayDelivers(s) ==
    /\ s \in DOMAIN sockets
    /\ sockets[s].conn.state = "open"
    /\ sockets[s].conn.queue # <<>>
    /\ sockets' = [sockets EXCEPT ![s].conn.queue = Tail(@),
                                  ![s].conn.delivered = Append(@, Head(sockets[s].conn.queue))]
    /\ UNCHANGED <<regVars, lifeVars, reqVars>>

\* conn is alive: conn.end() has an effect
Alive(conn) == conn.state \in {"connecting", "open"}

\* 'end' on the client socket (the client closed its side): socket.pipe(conn)
\* and the listener of line 188 both call conn.end()
SocketEnd(s) ==
    /\ s \in DOMAIN sockets
    /\ sockets[s].kind = "relay"
    /\ sockets[s].peer = "open"
    /\ sockets' = [sockets EXCEPT ![s].peer = "fin",
                                  ![s].conn.fin = @ \/ Alive(sockets[s].conn)]
    /\ UNCHANGED <<regVars, lifeVars, reqVars>>

\* 'error' on the client socket (the connection broke): the listener of line
\* 187 calls socket.end() on the destroyed socket.  No 'end' is emitted after
\* an 'error', and a pipe does not end its destination when its source fails,
\* so conn is left as it is.
SocketError(s) ==
    /\ s \in DOMAIN sockets
    /\ sockets[s].kind = "relay"
    /\ sockets[s].peer = "open"
    /\ sockets' = [sockets EXCEPT ![s].peer = "reset", ![s].ended = @ + 1]
    /\ UNCHANGED <<regVars, lifeVars, reqVars>>

\* 'end' on conn (the HTTPS server closed its side): conn.pipe(socket) and the
\* listener of line 186 both call socket.end()
ConnEnd(s) ==
    /\ s \in DOMAIN sockets
    /\ sockets[s].conn.state = "open"
    /\ sockets' = [sockets EXCEPT ![s].conn.state = "closed", ![s].conn.queue = <<>>,
                                  ![s].ended = @ + 2]
    /\ UNCHANGED <<regVars, lifeVars, reqVars>>

\* 'error' on an established conn: the listener of line 185 calls conn.end()
\* on the destroyed connection; the client socket is left as it is
ConnError(s) ==
    /\ s \in DOMAIN sockets
    /\ sockets[s].conn.state = "open"
    /\ sockets' = [sockets EXCEPT ![s].conn.state = "failed", ![s].conn.queue = <<>>]
    /\ UNCHANGED <<regVars, lifeVars, reqVars>>

----------------------------------------------------------------------------
(* What clients send *)

\* a request with a Host line
Request(url, host) ==
    <<"GET", SP>> \o url \o <<SP, "HTTP/1.1">> \o CRLF \o <<"Host:", SP>> \o host \o CRLF \o CRLF

\* a request line alone
RequestLine(url) == <<"GET", SP>> \o url \o <<SP, "HTTP/1.1">> \o CRLF \o CRLF

ClientHello == <<TLSHandshake, "hello">>

Garbage == <<"garbage">>

\* the first chunk of a connection and how the client built it
Sendable ==
    {[chunk |-> Request(<<"/x">>, h), what |-> [tls |-> FALSE, lines |-> 2, url |-> <<"/x">>, host |-> h]] :
        h \in {da, du, dconstructor}}
    \cup {[chunk |-> RequestLine(<<"/">>),
           what |-> [tls |-> FALSE, lines |-> 1, url |-> <<"/">>, host |-> NoText]]}
    \cup {[chunk |-> c, what |-> [tls |-> TRUE, lines |-> 0, url |-> NoText, host |-> NoText]] :
            c \in {ClientHello, <<TLSHandshake>>}}

\* a later chunk of a connection
SendableLater ==
    {[chunk |-> Garbage, what |-> [tls |-> FALSE, lines |-> 1, url |-> NoText, host |-> NoText]],
     [chunk |-> ClientHello, what |-> [tls |-> TRUE, lines |-> 0, url |-> NoText, host |-> NoText]]}

----------------------------------------------------------------------------
(* new HTTPNS(port = 6110, path = '.https-sock') *)

DefaultPort == 6110

PathNames == {".https-sock", "alt-sock"}

Paths == [piped : BOOLEAN, name : PathNames]

\* what a caller assigns to port: numbers, and something that is not one
PortValues == {[nan |-> FALSE, v |-> 8443], [nan |-> TRUE, v |-> 0]}

\* what a caller assigns to path
PathValues == {[piped |-> FALSE, name |-> n] : n \in PathNames}

NoServer == [listening |-> FALSE, port |-> 0, path |-> NoPath,
             listeners |-> 0, raised |-> 0, forwarded |-> 0]

NoAssign == [prop |-> "", nan |-> FALSE, val |-> 0, name |-> "", piped |-> FALSE,
             threw |-> FALSE, turn |-> 0]

NoSNI == [domain |-> NoText, err |-> FALSE, context |-> Undefined, lookups |-> <<>>,
          own |-> FALSE, before |-> Undefined, target |-> Undefined, after |-> Undefined]

InitRegistry ==
    /\ domains = <<>>
    /\ nextEmitter = 1
    /\ loads = <<>>
    /\ sni = NoSNI
    /\ memo = [d \in RegDomains |-> NoMemo]

\* the constructor: this.path = path on a server that is not listening, then
\* this.start(), which runs up to its first await.  The relay file may be
\* there already, left by an earlier process or made by a live one.
InitLife ==
    /\ platform \in {"linux", "win32"}
    /\ procStart \in {0, 1}
    /\ now = procStart
    /\ port = DefaultPort
    /\ path = [piped |-> platform = "win32", name |-> ".https-sock"]
    /\ http = NoServer
    /\ https = NoServer
    /\ files \in {f \in [Paths -> {NoFile} \cup {[exists |-> TRUE, birth |-> t] : t \in (procStart - 1)..procStart}] :
                    \A p \in Paths : p # path => f[p] = NoFile}
    /\ boot = [Idle EXCEPT !.pc = "stat", !.statPath = path, !.port = port]
    /\ starts = 1
    /\ assign = NoAssign

InitRequests == requests = <<>>

InitSockets == sockets = <<>>

Init == InitRegistry /\ InitLife /\ InitRequests /\ InitSockets

\* a fresh machine: no relay file, process started at the top of a second
InitClean == Init /\ platform = "linux" /\ procStart = 0 /\ files[path] = NoFile

RegisterStep == \E d \in RegDomains, c \in ContextOpts : Register([domain |-> d, context |-> c])

LoadKeyStep == \E i \in 1..MaxRegs, ok \in BOOLEAN : LoadKeyRead(i, ok)

LoadCertStep == \E i \in 1..MaxRegs, ok \in BOOLEAN, wf \in BOOLEAN : LoadCertRead(i, ok, wf)

SNIStep == \E d \in Keys : SNICallbacks(d)

SetPortStep == \E val \in PortValues : SetPort(val)

SetPathStep == \E val \in PathValues : SetPath(val)

StatStep == \E busy \in BOOLEAN : StatSettles(busy)

UnlinkStep == \E ok \in BOOLEAN, busy \in BOOLEAN : UnlinkSettles(ok, busy)

StopStep == \E keepFile \in BOOLEAN : Stop(keepFile)

RegisterContextStep ==
    \E d \in RegDomains, c \in PreBuiltContexts : Register([domain |-> d, context |-> c])

\* fs.stat settles while the public port is free
StatFreeStep == StatSettles(FALSE)

\* stop() where closing the relay listener removes its file
StopCleanStep == Stop(FALSE)

\* register calls made while the servers are started and stopped
RegisterKeepStep == nextEmitter <= MaxKeepRegs /\ RegisterStep

\* known.example is registered once
RegisterKnownStep == da \notin DOMAIN domains /\ Register([domain |-> da, context |-> PreBuilt(1)])

ForwardStep == \E host \in Keys, url \in Urls : requestForwarder(host, url)

AnswerStep == \E i \in 1..MaxRequests : Answer(i)

TimerStep == \E i \in 1..MaxRequests : TimerFires(i)

DataStep ==
    \E s \in 1..MaxSockets :
        \E m \in IF s \in DOMAIN sockets /\ sockets[s].received # <<>> THEN SendableLater ELSE Sendable :
            Data(s, m.chunk, m.what)

ConnectStep == \E s \in 1..MaxSockets : RelayConnects(s)

DeliverStep == \E s \in 1..MaxSockets : RelayDelivers(s)

SocketEndStep == \E s \in 1..MaxSockets : SocketEnd(s)

SocketErrorStep == \E s \in 1..MaxSockets : SocketError(s)

ConnEndStep == \E s \in 1..MaxSockets : ConnEnd(s)

ConnErrorStep == \E s \in 1..MaxSockets : ConnError(s)

NextRegistry == RegisterStep \/ LoadKeyStep \/ LoadCertStep \/ SNIStep

NextLife == SetPortStep \/ SetPathStep \/ StartCall \/ StatStep \/ UnlinkStep \/ StopStep \/ Tick

NextDispatch == RegisterContextStep \/ StatStep \/ ForwardStep \/ AnswerStep \/ TimerStep \/ Elapse

NextMux ==
    RegisterKnownStep \/ StatStep \/ StopStep \/ Accept \/ DataStep \/ ConnectStep \/ DeliverStep

\* the multiplexer with the ends and failures of the two sides of a relay
NextRelay == NextMux \/ SocketEndStep \/ SocketErrorStep \/ ConnEndStep \/ ConnErrorStep

SpecRegistry == InitClean /\ [][NextRegistry]_vars

\* the registry while the servers are started and stopped
NextKeep ==
    \/ RegisterKeepStep \/ LoadKeyStep \/ LoadCertStep \/ SNIStep
    \/ StartCall \/ StatFreeStep \/ StopCleanStep

SpecKeep == InitClean /\ [][NextKeep]_vars

SpecLife == Init /\ [][NextLife]_vars

SpecDispatch == InitClean /\ [][NextDispatch]_vars

\* register calls and dispatches alone, the responses left unanswered
NextChannel == RegisterContextStep \/ StatStep \/ ForwardStep

SpecChannel == InitClean /\ [][NextChannel]_vars

SpecMux == InitClean /\ [][NextMux]_vars

\* the event loop runs every callback that is due: a pending connect settles
\* and a buffered write is flushed; what clients and the HTTPS server do on
\* their own is not forced
SpecMuxLive ==
    InitClean /\ [][NextRelay]_vars /\ WF_vars(ConnectStep) /\ WF_vars(DeliverStep)

----------------------------------------------------------------------------
(* Properties *)

\* text t starts with text p
StartsWith(t, p) == Len(p) <= Len(t) /\ SubSeq(t, 1, Len(p)) = p

\* C1: when a subscriber writes and ends the response before 5000 time units
\* have elapsed, the timeout is cancelled: its callback never runs against
\* that response.
C1_TimeoutCancelled ==
    \A i \in DOMAIN requests :
        (requests[i].answeredAt >= 0 /\ requests[i].answeredAt < Timeout)
            => requests[i].timer # "ran"

\* C2: a dispatched request that no subscriber answers within 5000 time units
\* gets exactly one 500 response and exactly one close, once the time is up
\* and no timer is left to run; never more than one of either.
C2_OneDefaultResponse ==
    \A i \in DOMAIN requests :
        /\ requests[i].heads <= 1
        /\ requests[i].ends <= 1
        /\ (requests[i].age >= Timeout /\ requests[i].answeredAt < 0 /\ requests[i].timer # "armed")
              => (requests[i].heads = 1 /\ requests[i].ends = 1)

\* C3: resolve(D) returns the stored context when D's entry holds a loaded or
\* pre-built context, and fails when D was never registered or when D's entry
\* is still Unresolved.
C3_Resolve ==
    sni.domain # NoText =>
        /\ (sni.own /\ IsContext(sni.before)) => (~sni.err /\ sni.context = sni.before)
        /\ ~sni.own => sni.err
        /\ (sni.own /\ sni.before = Undefined) => sni.err

C3_Witness ==
    /\ sni.domain \in RegDomains
    /\ sni.own
    /\ sni.before.tag = "loaded"
    /\ ~sni.err
    /\ sni.context = sni.before

\* C4: when A is an alias of B and B holds context C, resolve(A) returns C and
\* leaves C in A's own entry; a resolve(A) that finds the memoized C returns it
\* and looks up no name but A.
C4_AliasMemoized ==
    sni.domain # NoText =>
        /\ (IsString(sni.before) /\ IsContext(sni.target))
              => (~sni.err /\ sni.context = sni.target /\ sni.after = sni.target)
        /\ (sni.domain \in RegDomains /\ memo[sni.domain].set /\ sni.before = memo[sni.domain].context)
              => /\ ~sni.err
                 /\ sni.context = memo[sni.domain].context
                 /\ \A k \in DOMAIN sni.lookups : sni.lookups[k] = sni.domain

C4_Witness ==
    /\ sni.domain = da
    /\ memo[da].set
    /\ sni.before = memo[da].context
    /\ sni.context = memo[da].context
    /\ db \in DOMAIN domains
    /\ Stored(domains, db) # memo[da].context

\* C5: once resolve(A) has memoized a context for the alias A, A's entry keeps
\* that context in every later state until A is registered again.
C5_MemoStable ==
    \A d \in RegDomains : memo[d].set => Stored(domains, d) = memo[d].context

\* the 308 response of the public listener, as documented
Expected308(host, url) ==
    <<"HTTP/1.1", SP, "308", SP, "Permanent Redirect", CR, LF,
      "Content-Type", ":", SP, "text/plain", CR, LF,
      "Location", ":", SP, "https://">> \o host \o url \o <<CR, LF,
      "Connection", ":", SP, "closed", CR, LF, CR, LF,
      "Response 308: Redirecting to secured request.">>

\* the 400 response of the public listener, as documented
Expected400 ==
    <<"HTTP/1.1", SP, "400", SP, "Bad Request", CR, LF,
      "Content-Type", ":", SP, "text/plain", CR, LF,
      "Connection", ":", SP, "closed", CR, LF, CR, LF,
      "Error 400: Unknown domain; Domain incorrectly pointing to this server.">>

\* C6: a connection whose first chunk does not start with byte 0x16 gets
\* exactly the 308 response when the chunk has two lines and the second names
\* a registered domain, exactly the 400 response otherwise, and is ended once.
C6_PlainResponse ==
    \A s \in DOMAIN sockets :
        (sockets[s].received # <<>> /\ sockets[s].received[1][1] # TLSHandshake)
            => /\ sockets[s].ended = 1
               /\ Join(sockets[s].written) =
                    IF sockets[s].sent[1].lines >= 2 /\ sockets[s].known[1]
                      THEN Expected308(sockets[s].sent[1].host, sockets[s].sent[1].url)
                      ELSE Expected400

\* C7: a connection whose first chunk starts with byte 0x16 gets a relay
\* connection, and what the relay hands to the HTTPS server is what the client
\* sent, first chunk first and in arrival order: a prefix of it at any time,
\* all of it once nothing is buffered.
C7_RelayInOrder ==
    \A s \in DOMAIN sockets :
        (sockets[s].received # <<>> /\ sockets[s].received[1][1] = TLSHandshake)
            => /\ sockets[s].kind = "relay"
               /\ sockets[s].conn.state # "none"
               /\ StartsWith(Join(sockets[s].received), Join(sockets[s].conn.delivered))
               /\ sockets[s].conn.state \in {"connecting", "open"}
                     => Join(sockets[s].conn.delivered \o sockets[s].conn.queue)
                          = Join(sockets[s].received)

C7_Witness ==
    \E s \in DOMAIN sockets :
        /\ sockets[s].kind = "relay"
        /\ Len(sockets[s].received) = 2
        /\ sockets[s].received[2][1] # TLSHandshake
        /\ sockets[s].conn.state = "open"
        /\ sockets[s].conn.delivered = sockets[s].received

\* C8 as claimed: an assignment of port or path fails when both listeners are
\* listening and succeeds in every other state.
C8_AssignOnlyFailsRunning ==
    [][assign' # assign => (assign'.threw <=> (http.listening /\ https.listening))]_vars

\* C8: an assignment of port or path made while both listeners are listening
\* fails and leaves the configuration as it was; in any other state an
\* assignment of path succeeds and stores the path (with the pipe prefix on
\* win32), an assignment of a number to port succeeds and stores it, and an
\* assignment of something that is not a number to port fails and leaves the
\* port as it was.
C8_Assign ==
    [][assign' # assign =>
         /\ assign'.prop = "port" =>
               /\ assign'.threw <=> ((http.listening /\ https.listening) \/ assign'.nan)
               /\ assign'.threw => port' = port
               /\ ~assign'.threw => port' = assign'.val
               /\ path' = path
         /\ assign'.prop = "path" =>
               /\ assign'.threw <=> (http.listening /\ https.listening)
               /\ assign'.threw => path' = path
               /\ ~assign'.threw => /\ path'.name = assign'.name
                                    /\ path'.piped <=> (assign'.piped \/ platform = "win32")
               /\ port' = port]_vars

C8_Witness ==
    /\ assign.prop = "path"
    /\ assign.threw
    /\ http.listening /\ https.listening
    /\ assign.name # path.name

\* C9: a start() on a server that is not listening, whose relay address is the
\* one it checked.  When fs.stat settles: a file older than the process leads
\* to an unlink and no listener is bound before that has settled; no file, or
\* a file not older than the process, leads to no unlink and to the bind, which
\* for the file that is there raises an error that is forwarded.  When the
\* unlink settles the listeners are bound.
C9_StaleCleanup ==
    [][(boot.statPath = path /\ ~http.listening /\ ~https.listening) =>
         /\ (boot.pc = "stat" /\ boot'.pc # "stat") =>
               /\ (files[path].exists /\ files[path].birth < procStart)
                     => (boot'.pc = "unlink" /\ boot'.unlinkPath = path
                         /\ ~http'.listening /\ ~https'.listening)
               /\ ~files[path].exists
                     => (boot'.pc = "idle" /\ https'.listening /\ https'.path = path)
               /\ (files[path].exists /\ files[path].birth >= procStart)
                     => (boot'.pc = "idle" /\ files' = files
                         /\ https'.raised = https.raised + 1
                         /\ https'.forwarded > https.forwarded)
         /\ (boot.pc = "unlink" /\ boot'.pc # "unlink") => boot'.pc = "idle"]_vars

\* C10: a finished certificate load has emitted exactly one notification:
\* 'registry' with the context stored, or 'error'.
C10_LoadNotifies ==
    \A i \in DOMAIN loads :
        loads[i].stage = "done"
            => /\ loads[i].emits = 1
               /\ loads[i].outcome \in {"registry", "error"}

\* C11: every decoded HTTPS request, whatever its Host, has notified the
\* channel of its domain under the request path, has notified the catch-all
\* channel, and has had its timeout started.
C11_DispatchAlways ==
    \A i \in DOMAIN requests :
        /\ ~requests[i].threw
        /\ requests[i].channel.tag = "emitter"
        /\ requests[i].catchAll
        /\ requests[i].timer # "none"

\* C12: a register call leaves the domain present with a channel that no entry
\* held and no request was notified on before, and touches no other entry; a
\* request dispatched for a registered domain is notified on the channel its
\* entry holds at that moment, never on one an earlier registration made.
C12_FreshChannel ==
    [][/\ nextEmitter' # nextEmitter =>
            \E d \in RegDomains :
                /\ has(domains', d)
                /\ as(domains', d, FALSE).tag = "emitter"
                /\ \A k \in DOMAIN domains : domains[k].emitter # as(domains', d, FALSE)
                /\ \A i \in DOMAIN requests : requests[i].channel # as(domains', d, FALSE)
                /\ \A k \in (DOMAIN domains) \ {d} : domains'[k] = domains[k]
       /\ Len(requests') > Len(requests) =>
            LET r == requests'[Len(requests')]
            IN r.host \in DOMAIN domains' =>
                  /\ r.channel = domains'[r.host].emitter
                  /\ \A k \in (DOMAIN domains') \ {r.host} : domains'[k].emitter # r.channel
                  /\ \A i \in DOMAIN requests :
                        (requests[i].host = r.host /\ requests[i].channel.tag = "emitter")
                            => requests[i].channel.id <= r.channel.id]_vars

C12_Witness ==
    /\ Len(requests) = 2
    /\ requests[1].host = da /\ requests[2].host = da
    /\ requests[1].channel.tag = "emitter"
    /\ requests[2].channel = domains[da].emitter
    /\ requests[1].channel # requests[2].channel

\* the client socket of connection s has been ended or is gone
SocketClosed(s) == sockets[s].ended > 0 \/ sockets[s].peer # "open"

\* the relay connection of connection s has been ended or is gone
ConnClosed(s) == sockets[s].conn.fin \/ sockets[s].conn.state \in {"failed", "closed"}

\* C13: for every relayed connection, once the relay connection has failed or
\* was closed the client socket is eventually ended (or the client has gone),
\* and once the client socket has failed or was closed the relay connection is
\* eventually ended.
C13_PairedClose ==
    \A s \in 1..MaxSockets :
        /\ (s \in DOMAIN sockets /\ sockets[s].conn.state \in {"failed", "closed"})
              ~> (s \in DOMAIN sockets /\ SocketClosed(s))
        /\ (s \in DOMAIN sockets /\ sockets[s].kind = "relay" /\ sockets[s].peer # "open")
              ~> (s \in DOMAIN sockets /\ ConnClosed(s))

\* C14: resolve hands the handshake a TLS context or a failure, never an alias
\* name; when A is an alias of B and B is an alias too, resolve(A) fails and
\* A's entry holds no context afterwards.
C14_ContextOrFailure ==
    sni.domain # NoText =>
        /\ sni.err \/ IsContext(sni.context)
        /\ (IsString(sni.before) /\ IsString(sni.target))
              => (sni.err /\ ~IsContext(sni.after))

\* C15: a resolve that fails leaves the entry of the domain as it was; an alias
\* whose target is absent or Unresolved is still that alias afterwards.
C15_FailedResolveKeeps ==
    (sni.domain # NoText /\ sni.err) =>
        /\ sni.after = sni.before
        /\ (IsString(sni.before) /\ ~Truthy(sni.target)) => IsString(sni.after)

\* C18: a load that ends with a context stores it in, and announces, the entry
\* made by the register call that started it and no later one; the loaded
\* context an entry holds comes from the load its own register call started.
C18_LatestRegistrationWins ==
    /\ \A i \in DOMAIN loads :
          loads[i].outcome = "registry" => loads[i].announced = loads[i].channel
    /\ \A d \in DOMAIN domains :
          Stored(domains, d).tag = "loaded"
              => loads[Stored(domains, d).id].channel = domains[d].emitter

\* C17: no step takes a domain out of the registry: a name for which has() is
\* true before a register call, a load step, a resolve, a start or a stop is
\* one for which has() is true after it.
C17_NeverLoses ==
    [][\A d \in Keys : has(domains, d) => has(domains', d)]_vars

C17_Witness ==
    /\ has(domains, da) /\ has(domains, db)
    /\ nextEmitter > MaxKeepRegs
    /\ \E i \in DOMAIN loads : loads[i].stage = "done" /\ loads[i].outcome = "error"
    /\ sni.err /\ sni.domain \in RegDomains
    /\ starts = 2
    /\ ~http.listening

\* C16: a connection is classified by its first chunk and stays what it became:
\* relayed when that chunk starts with byte 0x16, otherwise answered once with
\* the 308 or the 400 response and ended.  A later chunk changes neither the
\* kind nor what was written; on a relayed connection it is passed to the relay
\* connection as it is, whatever its first byte.
C16_ClassifiedOnce ==
    [][\A s \in DOMAIN sockets' :
          /\ sockets'[s].received = <<>> => sockets'[s].kind = "new"
          /\ sockets'[s].received # <<>> =>
                /\ sockets'[s].kind =
                      IF sockets'[s].received[1][1] = TLSHandshake THEN "relay" ELSE "plain"
                /\ sockets'[s].kind = "plain" =>
                      /\ Len(sockets'[s].written) = 2
                      /\ sockets'[s].written[1][3] \in {"308", "400"}
                      /\ sockets'[s].ended = 1
                      /\ sockets'[s].conn = NoRelay
                /\ sockets'[s].kind = "relay" => sockets'[s].written = <<>>
          /\ (s \in DOMAIN sockets /\ sockets[s].kind # "new") =>
                /\ sockets'[s].kind = sockets[s].kind
                /\ sockets'[s].written = sockets[s].written
                /\ sockets[s].kind = "plain" => sockets'[s].ended = sockets[s].ended
                /\ (sockets[s].kind = "relay" /\ sockets'[s].received # sockets[s].received
                      /\ Alive(sockets[s].conn))
                      => sockets'[s].conn.queue =
                            Append(sockets[s].conn.queue,
                                   sockets'[s].received[Len(sockets'[s].received)])]_vars

C16_Witness ==
    \E s \in DOMAIN sockets :
        /\ sockets[s].kind = "plain"
        /\ Len(sockets[s].received) = 2
        /\ sockets[s].received[2][1] = TLSHandshake
        /\ Len(sockets[s].written) = 2
        /\ sockets[s].ended = 1

\* C19: every 'error' a listener has raised was forwarded to the 'error'
\* notification of the HTTPNS object once, no more and no less, however often
\* the servers were started and stopped.
C19_ForwardedOnce ==
    /\ http.forwarded = http.raised
    /\ https.forwarded = https.raised

\* C20: a start() that binds the relay listener binds it at the address it gave
\* to fs.stat (and to fs.unlink when it removed a stale file), and a start()
\* that binds the public listener binds the port that was configured when it
\* was called.
C20_BindsWhatItChecked ==
    [][(boot.pc # "idle" /\ boot'.pc = "idle") =>
         /\ (https'.listening /\ ~https.listening) =>
               /\ https'.path = boot.statPath
               /\ boot.pc = "unlink" => https'.path = boot.unlinkPath
         /\ (http'.listening /\ ~http.listening) => http'.port = boot.port]_vars

====
